---- MODULE Spec2Model ----
(***************************************************************************)
(* Model of contrib/sepgsql/hooks.c: the entry points that SE-PostgreSQL   *)
(* installs at the seven extension points of the host, the contextual      *)
(* information saved around nested command dispatch, and the label switch  *)
(* of trusted procedures.                                                  *)
(*                                                                         *)
(* One backend session is modelled.  The host's control stack is the       *)
(* variable activations: a handler that delegates to host code which may   *)
(* re-enter the layer (ProcessUtility, ExecutorStart, the body of a        *)
(* function wrapped by fmgr_hook) is an entry action that pushes a record, *)
(* and an exit action that pops it.  An error raised by ereport/elog is    *)
(* the variable error: it unwinds the records one at a time.               *)
(***************************************************************************)
EXTENDS Integers, Sequences, FiniteSets, TLC

\* ------------------------------------------------------------------ bounds
MaxDepth == 2    \* depth of the host's control stack
NumSlots == 2    \* private slots (FmgrInfo call sites) of the host
MaxAuth  == 2    \* invocations of ClientAuthentication_hook in a session

\* ------------------------------------------------------------ C constants
NULL == "NULL"

\* the seven extension points of the host (hooks.c:38-44)
Points ==
  {"ClientAuthentication", "object_access", "ExecutorCheckPerms",
   "needs_fmgr", "fmgr", "ProcessUtility", "ExecutorStart"}

\* security labels that occur: the server process, the peer, two domains
\* that trusted procedures switch to
ServerLabel == "server_t"
PeerLabel   == "client_t"

Slots == 1 .. NumSlots

\* the function a call site invokes: the FmgrInfo's fn_oid
fn_oid(s) == s

\* the functions of the database: those of the call sites, and one that no
\* call site reaches through the hook
Functions == {fn_oid(s) : s \in Slots} \cup {NumSlots + 1}

\* ----------------------------------------------------- the Decision Oracle
\* sepgsql_avc_trusted_proc: the label the policy switches to when the
\* function is executed, or NULL
sepgsql_avc_trusted_proc(functionId) ==
  CASE functionId % 3 = 1 -> "trusted_t"
    [] functionId % 3 = 2 -> "trusted2_t"
    [] OTHER              -> NULL

\* sepgsql_set_client_label: swaps the label in, returns the old one
sepgsql_set_client_label(cur, new) == [label |-> new, old |-> cur]

\* sepgsql_set_mode: guarded by the forward-only rule, a mode that has
\* left INTERNAL is not changed again
sepgsql_set_mode(cur, new) == IF cur = "INTERNAL" THEN new ELSE cur

\* sepgsql_getenforce: true when the mode is enforcing
sepgsql_getenforce(mode) == mode = "DEFAULT"

\* --------------------------------------------------------------- the state
VARIABLES
  init_state,            \* "unloaded", or how _PG_init ended: ok/disabled/error
  USE_ASSERT_CHECKING,   \* the build: is Assert() compiled in
  hook,                  \* the host's hook variable at each extension point
  next_hook,             \* next_*_hook: the saved entries (hooks.c:38-44)
  sepgsql_mode,          \* DISABLED / INTERNAL / PERMISSIVE / DEFAULT
  client_label,          \* the session label
  sepgsql_permissive,    \* GUC sepgsql.permissive
  sepgsql_context_info,  \* [cmdtype, createdb_dtemplate] (hooks.c:49-60)
  private,               \* the host's private slot of each call site
  activations,           \* the host's control stack, innermost first
  error,                 \* the error being thrown, or NULL
  session,               \* "running"; "fatal" after FATAL; "trap" after TRAP
  auth_calls,            \* ClientAuthentication_hook invocations so far
  last                   \* the last event the host delivered, as observed

vars == <<init_state, USE_ASSERT_CHECKING, hook, next_hook, sepgsql_mode,
          client_label, sepgsql_permissive, sepgsql_context_info, private,
          activations, error, session, auth_calls, last>>

\* memset(&sepgsql_context_info, 0, ...): T_Invalid is node tag 0
EmptyContext == [cmdtype |-> "T_Invalid", createdb_dtemplate |-> NULL]

\* a private slot that holds no pointer (Datum 0), and the struct of
\* sepgsql_fmgr_hook (hooks.c:276-281) once allocated
NoFrame == [alloc |-> FALSE, old_label |-> NULL, new_label |-> NULL,
            next_private |-> 0]

\* what the chained fmgr hook stores in its private sub-slot at start
ChainToken == 7

\* one call made inside a handler, as the observer records it
Call(name, a, b) == <<name, a, b>>

NoEvent ==
  [op |-> "none", tag |-> NULL, slot |-> 0, args |-> <<>>,
   pre_label |-> NULL, pre_mode |-> NULL, pre_ctx |-> EmptyContext,
   pre_frame |-> NoFrame, pre_depth |-> 0, entry_ctx |-> EmptyContext, entry_label |-> NULL,
   trace |-> <<>>, err |-> NULL, ret |-> NULL]

\* the event record of a handler that starts in the current state; args
\* are the answers of the callees the host chose for it
Event(op, tag, slot) ==
  [op |-> op, tag |-> tag, slot |-> slot, args |-> <<>>,
   pre_label |-> client_label, pre_mode |-> sepgsql_mode,
   pre_ctx |-> sepgsql_context_info,
   pre_frame |-> IF slot \in Slots THEN private[slot] ELSE NoFrame,
   pre_depth |-> Len(activations),
   entry_ctx |-> sepgsql_context_info, entry_label |-> client_label,
   trace |-> <<>>, err |-> NULL, ret |-> NULL]

\* the previously installed hooks of the host: none, or another module at
\* every point
OtherModule(p) ==
  CASE p = "ClientAuthentication" -> "other_client_auth"
    [] p = "object_access"        -> "other_object_access"
    [] p = "ExecutorCheckPerms"   -> "other_exec_check_perms"
    [] p = "needs_fmgr"           -> "other_needs_fmgr_hook"
    [] p = "fmgr"                 -> "other_fmgr_hook"
    [] p = "ProcessUtility"       -> "other_utility_command"
    [] OTHER                      -> "other_executor_start"

StackedConfigs == {[p \in Points |-> NULL], [p \in Points |-> OtherModule(p)]}

Init ==
  /\ init_state = "unloaded"
  /\ USE_ASSERT_CHECKING \in BOOLEAN
  /\ hook \in StackedConfigs
  /\ next_hook = [p \in Points |-> NULL]
  /\ sepgsql_mode = "INTERNAL"
  /\ client_label = NULL
  /\ sepgsql_permissive = FALSE
  /\ sepgsql_context_info = EmptyContext
  /\ private = [s \in Slots |-> NoFrame]
  /\ activations = <<>>
  /\ error = NULL
  /\ session = "running"
  /\ auth_calls = 0
  /\ last = NoEvent

\* the host runs and no error is being thrown
Idle == session = "running" /\ error = NULL

Hooked(p) == hook[p] = "sepgsql"

\* ---------------------------------------------------------------- _PG_init
\* faulty variant: the disabled branch lacks its return and registers anyway
PG_init_result_noreturn(m, hk, under_postmaster, selinux_enabled, getcon_ok) ==
  IF under_postmaster
  THEN [state |-> "error", mode |-> m, label |-> NULL,
        hook |-> hk, next |-> [p \in Points |-> NULL]]
  ELSE IF ~getcon_ok
  THEN [state |-> "error",
        mode |-> IF selinux_enabled THEN m
                 ELSE sepgsql_set_mode(m, "DISABLED"),
        label |-> NULL, hook |-> hk, next |-> [p \in Points |-> NULL]]
  ELSE [state |-> IF selinux_enabled THEN "ok" ELSE "disabled",
        mode |-> IF selinux_enabled THEN m
                 ELSE sepgsql_set_mode(m, "DISABLED"),
        label |-> sepgsql_set_client_label(NULL, ServerLabel).label,
        hook |-> [p \in Points |-> "sepgsql"], next |-> hk]

\* faulty variant: the hooks are overwritten and the old values dropped
PG_init_result_nochain(m, hk, under_postmaster, selinux_enabled, getcon_ok) ==
  IF under_postmaster
  THEN [state |-> "error", mode |-> m, label |-> NULL,
        hook |-> hk, next |-> [p \in Points |-> NULL]]
  ELSE IF ~selinux_enabled
  THEN [state |-> "disabled", mode |-> sepgsql_set_mode(m, "DISABLED"),
        label |-> NULL, hook |-> hk, next |-> [p \in Points |-> NULL]]
  ELSE IF ~getcon_ok
  THEN [state |-> "error", mode |-> m, label |-> NULL,
        hook |-> hk, next |-> [p \in Points |-> NULL]]
  ELSE [state |-> "ok", mode |-> m,
        label |-> sepgsql_set_client_label(NULL, ServerLabel).label,
        hook |-> [p \in Points |-> "sepgsql"],
        next |-> [p \in Points |-> NULL]]

\* faulty variant: the server's label is fetched after the first hook is set
PG_init_result_latelabel(m, hk, under_postmaster, selinux_enabled, getcon_ok) ==
  IF under_postmaster
  THEN [state |-> "error", mode |-> m, label |-> NULL,
        hook |-> hk, next |-> [p \in Points |-> NULL]]
  ELSE IF ~selinux_enabled
  THEN [state |-> "disabled", mode |-> sepgsql_set_mode(m, "DISABLED"),
        label |-> NULL, hook |-> hk, next |-> [p \in Points |-> NULL]]
  ELSE IF ~getcon_ok
  THEN [state |-> "error", mode |-> m, label |-> NULL,
        hook |-> [hk EXCEPT !["ClientAuthentication"] = "sepgsql"],
        next |-> [[p \in Points |-> NULL] EXCEPT
                    !["ClientAuthentication"] = hk["ClientAuthentication"]]]
  ELSE [state |-> "ok", mode |-> m,
        label |-> sepgsql_set_client_label(NULL, ServerLabel).label,
        hook |-> [p \in Points |-> "sepgsql"], next |-> hk]

\* faulty variant: the dummy client label is not set up
PG_init_result_nolabel(m, hk, under_postmaster, selinux_enabled, getcon_ok) ==
  IF under_postmaster
  THEN [state |-> "error", mode |-> m, label |-> NULL,
        hook |-> hk, next |-> [p \in Points |-> NULL]]
  ELSE IF ~selinux_enabled
  THEN [state |-> "disabled", mode |-> sepgsql_set_mode(m, "DISABLED"),
        label |-> NULL, hook |-> hk, next |-> [p \in Points |-> NULL]]
  ELSE IF ~getcon_ok
  THEN [state |-> "error", mode |-> m, label |-> NULL,
        hook |-> hk, next |-> [p \in Points |-> NULL]]
  ELSE [state |-> "ok", mode |-> m, label |-> NULL,
        hook |-> [p \in Points |-> "sepgsql"], next |-> hk]

\* what _PG_init leaves behind: how it ended, the mode, the label and the
\* hook variables
PG_init_result(m, hk, under_postmaster, selinux_enabled, getcon_ok) ==
  IF under_postmaster
  THEN [state |-> "error", mode |-> m, label |-> NULL,
        hook |-> hk, next |-> [p \in Points |-> NULL]]
  ELSE IF ~selinux_enabled
  THEN [state |-> "disabled", mode |-> sepgsql_set_mode(m, "DISABLED"),
        label |-> NULL, hook |-> hk, next |-> [p \in Points |-> NULL]]
  ELSE IF ~getcon_ok
  THEN [state |-> "error", mode |-> m, label |-> NULL,
        hook |-> hk, next |-> [p \in Points |-> NULL]]
  ELSE [state |-> "ok", mode |-> m,
        label |-> sepgsql_set_client_label(NULL, ServerLabel).label,
        hook |-> [p \in Points |-> "sepgsql"], next |-> hk]

PG_init ==
  /\ init_state = "unloaded"
  /\ \E under_postmaster \in BOOLEAN, selinux_enabled \in BOOLEAN,
        getcon_ok \in BOOLEAN :
       LET r == PG_init_result(sepgsql_mode, hook, under_postmaster,
                               selinux_enabled, getcon_ok)
       IN /\ init_state' = r.state
          /\ sepgsql_mode' = r.mode
          /\ client_label' = r.label
          /\ hook' = r.hook
          /\ next_hook' = r.next
          /\ sepgsql_context_info' =
               IF r.state = "ok" THEN EmptyContext ELSE sepgsql_context_info
          /\ last' = [Event("_PG_init", NULL, 0) EXCEPT
                        !.args = <<hook>>,
                        !.err = IF r.state = "error" THEN "ERROR" ELSE NULL]
  /\ UNCHANGED <<USE_ASSERT_CHECKING, sepgsql_permissive, private,
                 activations, error, session, auth_calls>>

\* sepgsql.permissive is PGC_SIGHUP: a reload of the configuration sets it
SetPermissive ==
  /\ init_state = "ok"
  /\ Idle
  /\ activations = <<>>
  /\ sepgsql_permissive' = ~sepgsql_permissive
  /\ last' = Event("set_permissive", NULL, 0)
  /\ UNCHANGED <<init_state, USE_ASSERT_CHECKING, hook, next_hook,
                 sepgsql_mode, client_label, sepgsql_context_info, private,
                 activations, error, session, auth_calls>>

\* ----------------------------------------------------- sepgsql_client_auth
\* faulty variant: the test of the status is missing
sepgsql_client_auth_nostatus(e, status_ok, peer_ok) ==
  LET e1 == IF next_hook["ClientAuthentication"] # NULL
            THEN [e EXCEPT !.trace = Append(@,
                    Call("next_client_auth_hook", e.pre_label, e.pre_mode))]
            ELSE e
  IN IF ~peer_ok
     THEN [ev |-> [e1 EXCEPT !.trace = Append(@,
                     Call("getpeercon_raw", "fail", NULL)),
                   !.err = "FATAL"],
           label |-> e.pre_label, mode |-> e.pre_mode, fatal |-> TRUE]
     ELSE [ev |-> [e1 EXCEPT !.trace = Append(@,
                     Call("getpeercon_raw", PeerLabel, NULL))],
           label |-> sepgsql_set_client_label(e.pre_label, PeerLabel).label,
           mode |-> sepgsql_set_mode(e.pre_mode,
                      IF sepgsql_permissive THEN "PERMISSIVE" ELSE "DEFAULT"),
           fatal |-> FALSE]

\* faulty variant: the test of sepgsql_permissive is inverted
sepgsql_client_auth_inverted(e, status_ok, peer_ok) ==
  LET e1 == IF next_hook["ClientAuthentication"] # NULL
            THEN [e EXCEPT !.trace = Append(@,
                    Call("next_client_auth_hook", e.pre_label, e.pre_mode))]
            ELSE e
  IN IF ~status_ok
     THEN [ev |-> e1, label |-> e.pre_label, mode |-> e.pre_mode,
           fatal |-> FALSE]
     ELSE IF ~peer_ok
     THEN [ev |-> [e1 EXCEPT !.trace = Append(@,
                     Call("getpeercon_raw", "fail", NULL)),
                   !.err = "FATAL"],
           label |-> e.pre_label, mode |-> e.pre_mode, fatal |-> TRUE]
     ELSE [ev |-> [e1 EXCEPT !.trace = Append(@,
                     Call("getpeercon_raw", PeerLabel, NULL))],
           label |-> sepgsql_set_client_label(e.pre_label, PeerLabel).label,
           mode |-> sepgsql_set_mode(e.pre_mode,
                      IF sepgsql_permissive THEN "DEFAULT" ELSE "PERMISSIVE"),
           fatal |-> FALSE]

\* faulty variant: a peer without a label is let in, the label left as it is
sepgsql_client_auth_nofatal(e, status_ok, peer_ok) ==
  LET e1 == IF next_hook["ClientAuthentication"] # NULL
            THEN [e EXCEPT !.trace = Append(@,
                    Call("next_client_auth_hook", e.pre_label, e.pre_mode))]
            ELSE e
  IN IF ~status_ok
     THEN [ev |-> e1, label |-> e.pre_label, mode |-> e.pre_mode,
           fatal |-> FALSE]
     ELSE [ev |-> [e1 EXCEPT !.trace = Append(@,
                     Call("getpeercon_raw",
                          IF peer_ok THEN PeerLabel ELSE "fail", NULL))],
           label |-> IF peer_ok
                     THEN sepgsql_set_client_label(e.pre_label, PeerLabel).label
                     ELSE e.pre_label,
           mode |-> sepgsql_set_mode(e.pre_mode,
                      IF sepgsql_permissive THEN "PERMISSIVE" ELSE "DEFAULT"),
           fatal |-> FALSE]

\* faulty variant: the chained handler runs after the work of this one
sepgsql_client_auth_chainlast(e, status_ok, peer_ok) ==
  LET label == IF status_ok /\ peer_ok
               THEN sepgsql_set_client_label(e.pre_label, PeerLabel).label
               ELSE e.pre_label
      mode == IF status_ok /\ peer_ok
              THEN sepgsql_set_mode(e.pre_mode,
                     IF sepgsql_permissive THEN "PERMISSIVE" ELSE "DEFAULT")
              ELSE e.pre_mode
      e1 == IF ~status_ok THEN e
            ELSE [e EXCEPT !.trace = Append(@,
                    Call("getpeercon_raw",
                         IF peer_ok THEN PeerLabel ELSE "fail", NULL)),
                  !.err = IF peer_ok THEN NULL ELSE "FATAL"]
      e2 == IF next_hook["ClientAuthentication"] # NULL /\ e1.err = NULL
            THEN [e1 EXCEPT !.trace = Append(@,
                    Call("next_client_auth_hook", label, mode))]
            ELSE e1
  IN [ev |-> e2, label |-> label, mode |-> mode,
      fatal |-> status_ok /\ ~peer_ok]

\* hooks.c:91-124: the chained handler first; nothing on a failed
\* authentication; FATAL when the peer has no label; else the peer's label
\* and the mode that sepgsql.permissive selects
sepgsql_client_auth(e, status_ok, peer_ok) ==
  LET e1 == IF next_hook["ClientAuthentication"] # NULL
            THEN [e EXCEPT !.trace = Append(@,
                    Call("next_client_auth_hook", e.pre_label, e.pre_mode))]
            ELSE e
  IN IF ~status_ok
     THEN [ev |-> e1, label |-> e.pre_label, mode |-> e.pre_mode,
           fatal |-> FALSE]
     ELSE IF ~peer_ok
     THEN [ev |-> [e1 EXCEPT !.trace = Append(@,
                     Call("getpeercon_raw", "fail", NULL)),
                   !.err = "FATAL"],
           label |-> e.pre_label, mode |-> e.pre_mode, fatal |-> TRUE]
     ELSE [ev |-> [e1 EXCEPT !.trace = Append(@,
                     Call("getpeercon_raw", PeerLabel, NULL))],
           label |-> sepgsql_set_client_label(e.pre_label, PeerLabel).label,
           mode |-> sepgsql_set_mode(e.pre_mode,
                      IF sepgsql_permissive THEN "PERMISSIVE" ELSE "DEFAULT"),
           fatal |-> FALSE]

ClientAuth ==
  /\ Hooked("ClientAuthentication")
  /\ Idle
  /\ activations = <<>>
  /\ auth_calls < MaxAuth
  /\ \E status_ok \in BOOLEAN, peer_ok \in BOOLEAN :
       LET r == sepgsql_client_auth(Event("client_auth",
                   IF status_ok THEN "STATUS_OK" ELSE "STATUS_ERROR", 0),
                   status_ok, peer_ok)
       IN /\ client_label' = r.label
          /\ sepgsql_mode' = r.mode
          /\ session' = IF r.fatal THEN "fatal" ELSE session
          /\ last' = r.ev
  /\ auth_calls' = auth_calls + 1
  /\ UNCHANGED <<init_state, USE_ASSERT_CHECKING, hook, next_hook,
                 sepgsql_permissive, sepgsql_context_info, private,
                 activations, error>>

\* --------------------------------------------------- sepgsql_object_access
AccessTypes == {"OAT_POST_CREATE", "OAT_DROP"}
ClassIds == {"DatabaseRelationId", "NamespaceRelationId", "RelationRelationId",
             "ProcedureRelationId", "TypeRelationId"}

\* faulty variant: CREATE TABLE AS and SELECT INTO are forgotten
RelationCreators_noselect ==
  {"T_CreateStmt", "T_ViewStmt", "T_CreateSeqStmt", "T_CompositeTypeStmt",
   "T_CreateForeignTableStmt"}

\* the command kinds for which a new relation gets a label and a check
RelationCreators ==
  {"T_CreateStmt", "T_ViewStmt", "T_CreateSeqStmt", "T_CompositeTypeStmt",
   "T_CreateForeignTableStmt", "T_SelectStmt"}

\* faulty variant: a class without a routine falls into the relation case
object_access_route_anyclass(ctx, access, classId, subId) ==
  IF access # "OAT_POST_CREATE" THEN NULL
  ELSE CASE classId = "DatabaseRelationId" -> "sepgsql_database_post_create"
         [] classId = "NamespaceRelationId" -> "sepgsql_schema_post_create"
         [] classId = "ProcedureRelationId" -> "sepgsql_proc_post_create"
         [] OTHER ->
              IF subId = 0
              THEN IF ctx.cmdtype \in RelationCreators
                   THEN "sepgsql_relation_post_create" ELSE NULL
              ELSE "sepgsql_attribute_post_create"

\* faulty variant: the test of cmdtype is made before the test of subId
object_access_route_listfirst(ctx, access, classId, subId) ==
  IF access # "OAT_POST_CREATE" THEN NULL
  ELSE CASE classId = "DatabaseRelationId" -> "sepgsql_database_post_create"
         [] classId = "NamespaceRelationId" -> "sepgsql_schema_post_create"
         [] classId = "RelationRelationId" ->
              IF ctx.cmdtype \in RelationCreators
              THEN IF subId = 0
                   THEN "sepgsql_relation_post_create"
                   ELSE "sepgsql_attribute_post_create"
              ELSE NULL
         [] classId = "ProcedureRelationId" -> "sepgsql_proc_post_create"
         [] OTHER -> NULL

\* the per-class routine the dispatcher calls for the event, or NULL
object_access_route(ctx, access, classId, subId) ==
  IF access # "OAT_POST_CREATE" THEN NULL
  ELSE CASE classId = "DatabaseRelationId" -> "sepgsql_database_post_create"
         [] classId = "NamespaceRelationId" -> "sepgsql_schema_post_create"
         [] classId = "RelationRelationId" ->
              IF subId = 0
              THEN IF ctx.cmdtype \in RelationCreators
                   THEN "sepgsql_relation_post_create" ELSE NULL
              ELSE "sepgsql_attribute_post_create"
         [] classId = "ProcedureRelationId" -> "sepgsql_proc_post_create"
         [] OTHER -> NULL

\* faulty variant: an access type the layer does not know is ignored
sepgsql_object_access_silent(e, access, classId, subId, handler_ok) ==
  LET e1 == IF next_hook["object_access"] # NULL
            THEN [e EXCEPT !.trace = Append(@,
                    Call("next_object_access_hook", access, classId))]
            ELSE e
      route == object_access_route(e.pre_ctx, access, classId, subId)
  IN IF route = NULL THEN e1
     ELSE [e1 EXCEPT
             !.trace = Append(@, Call(route,
                         IF classId = "DatabaseRelationId"
                         THEN e.pre_ctx.createdb_dtemplate ELSE NULL,
                         NULL)),
             !.err = IF handler_ok THEN NULL ELSE "access denied"]

\* faulty variant: the access type is tested before the chained hook runs
sepgsql_object_access_typefirst(e, access, classId, subId, handler_ok) ==
  LET e1 == IF next_hook["object_access"] # NULL
            THEN [e EXCEPT !.trace = Append(@,
                    Call("next_object_access_hook", access, classId))]
            ELSE e
      route == object_access_route(e.pre_ctx, access, classId, subId)
  IN IF access # "OAT_POST_CREATE"
     THEN [e EXCEPT !.err = "unexpected object access type"]
     ELSE IF route = NULL THEN e1
     ELSE [e1 EXCEPT
             !.trace = Append(@, Call(route,
                         IF classId = "DatabaseRelationId"
                         THEN e.pre_ctx.createdb_dtemplate ELSE NULL,
                         NULL)),
             !.err = IF handler_ok THEN NULL ELSE "access denied"]

\* handler_ok: the per-class routine returns (it raises when it denies)
sepgsql_object_access(e, access, classId, subId, handler_ok) ==
  LET e1 == IF next_hook["object_access"] # NULL
            THEN [e EXCEPT !.trace = Append(@,
                    Call("next_object_access_hook", access, classId))]
            ELSE e
      route == object_access_route(e.pre_ctx, access, classId, subId)
  IN IF access # "OAT_POST_CREATE"
     THEN [e1 EXCEPT !.err = "unexpected object access type"]
     ELSE IF route = NULL THEN e1
     ELSE [e1 EXCEPT
             !.trace = Append(@, Call(route,
                         IF classId = "DatabaseRelationId"
                         THEN e.pre_ctx.createdb_dtemplate ELSE NULL,
                         NULL)),
             !.err = IF handler_ok THEN NULL ELSE "access denied"]

ObjectAccess ==
  /\ Hooked("object_access")
  /\ Idle
  /\ \E access \in AccessTypes, classId \in ClassIds, subId \in {0, 1},
        handler_ok \in BOOLEAN :
       LET e == sepgsql_object_access(
                  [Event("object_access", classId, 0) EXCEPT
                     !.slot = subId, !.args = <<access>>],
                  access, classId, subId, handler_ok)
       IN /\ last' = e
          /\ error' = e.err
  /\ UNCHANGED <<init_state, USE_ASSERT_CHECKING, hook, next_hook,
                 sepgsql_mode, client_label, sepgsql_permissive,
                 sepgsql_context_info, private, activations, session,
                 auth_calls>>

\* ------------------------------------------------ sepgsql_exec_check_perms
\* the result of a callee: "true", "false", or "error" when it raises
CalleeResults == {"true", "false", "error"}

\* sepgsql_dml_privileges(rangeTabls, abort): raises instead of returning
\* false when abort is set
sepgsql_dml_privileges(allowed, abort) ==
  IF allowed THEN "true" ELSE IF abort THEN "error" ELSE "false"

\* faulty variant: this layer's query is issued first, the chained one after
sepgsql_exec_check_perms_ownfirst(e, chained, allowed, abort) ==
  LET own == sepgsql_dml_privileges(allowed, abort)
      e1 == [e EXCEPT !.trace = Append(@,
               Call("sepgsql_dml_privileges", own, NULL))]
      e2 == IF next_hook["ExecutorCheckPerms"] # NULL
            THEN [e1 EXCEPT !.trace = Append(@,
                    Call("next_exec_check_perms_hook", chained, NULL))]
            ELSE e1
  IN IF own = "error" THEN [e1 EXCEPT !.err = "access denied"]
     ELSE IF own = "false" THEN [e1 EXCEPT !.ret = "false"]
     ELSE IF next_hook["ExecutorCheckPerms"] # NULL /\ chained = "error"
     THEN [e2 EXCEPT !.err = "chained error"]
     ELSE IF next_hook["ExecutorCheckPerms"] # NULL /\ chained = "false"
     THEN [e2 EXCEPT !.ret = "false"]
     ELSE [e2 EXCEPT !.ret = "true"]

\* faulty variant: the results are combined with "or"
sepgsql_exec_check_perms_or(e, chained, allowed, abort) ==
  LET own == sepgsql_dml_privileges(allowed, abort)
      e1 == IF next_hook["ExecutorCheckPerms"] # NULL
            THEN [e EXCEPT !.trace = Append(@,
                    Call("next_exec_check_perms_hook", chained, NULL))]
            ELSE e
      e2 == [e1 EXCEPT !.trace = Append(@,
               Call("sepgsql_dml_privileges", own, NULL))]
  IN IF next_hook["ExecutorCheckPerms"] # NULL /\ chained = "error"
     THEN [e1 EXCEPT !.err = "chained error"]
     ELSE IF next_hook["ExecutorCheckPerms"] # NULL /\ chained = "true"
     THEN [e1 EXCEPT !.ret = "true"]
     ELSE IF own = "error" THEN [e2 EXCEPT !.err = "access denied"]
     ELSE [e2 EXCEPT !.ret = own]

sepgsql_exec_check_perms(e, chained, allowed, abort) ==
  LET own == sepgsql_dml_privileges(allowed, abort)
      e1 == IF next_hook["ExecutorCheckPerms"] # NULL
            THEN [e EXCEPT !.trace = Append(@,
                    Call("next_exec_check_perms_hook", chained, NULL))]
            ELSE e
      e2 == [e1 EXCEPT !.trace = Append(@,
               Call("sepgsql_dml_privileges", own, NULL))]
  IN IF next_hook["ExecutorCheckPerms"] # NULL /\ chained = "error"
     THEN [e1 EXCEPT !.err = "chained error"]
     ELSE IF next_hook["ExecutorCheckPerms"] # NULL /\ chained = "false"
     THEN [e1 EXCEPT !.ret = "false"]
     ELSE IF own = "error" THEN [e2 EXCEPT !.err = "access denied"]
     ELSE [e2 EXCEPT !.ret = own]

ExecCheckPerms ==
  /\ Hooked("ExecutorCheckPerms")
  /\ Idle
  /\ \E chained \in CalleeResults, allowed \in BOOLEAN, abort \in BOOLEAN :
       LET e == sepgsql_exec_check_perms(
                  [Event("exec_check_perms",
                         IF abort THEN "abort" ELSE "noabort", 0)
                   EXCEPT !.args = <<chained,
                                     sepgsql_dml_privileges(allowed, abort)>>],
                  chained, allowed, abort)
       IN /\ last' = e
          /\ error' = e.err
  /\ UNCHANGED <<init_state, USE_ASSERT_CHECKING, hook, next_hook,
                 sepgsql_mode, client_label, sepgsql_permissive,
                 sepgsql_context_info, private, activations, session,
                 auth_calls>>

\* ------------------------------------------------- sepgsql_needs_fmgr_hook
\* faulty variant: the execute permission is not asked for
sepgsql_needs_fmgr_hook_noperm(e, functionId, chained, allowed) ==
  LET e1 == IF next_hook["needs_fmgr"] # NULL
            THEN [e EXCEPT !.trace = Append(@,
                    Call("next_needs_fmgr_hook",
                         IF chained THEN "true" ELSE "false", NULL))]
            ELSE e
      e2 == [e1 EXCEPT !.trace = Append(@,
               Call("sepgsql_avc_trusted_proc",
                    sepgsql_avc_trusted_proc(functionId), NULL))]
  IN IF next_hook["needs_fmgr"] # NULL /\ chained
     THEN [e1 EXCEPT !.ret = "true"]
     ELSE IF sepgsql_avc_trusted_proc(functionId) # NULL
     THEN [e2 EXCEPT !.ret = "true"]
     ELSE [e2 EXCEPT !.ret = "false"]

\* chained: the chained handler's answer; allowed: the decision on
\* db_procedure:{execute}, asked with abort = false
\* faulty variant: the check of db_procedure:execute aborts on a denial
sepgsql_needs_fmgr_hook_fatal(e, functionId, chained, allowed) ==
  LET e1 == IF next_hook["needs_fmgr"] # NULL
            THEN [e EXCEPT !.trace = Append(@,
                    Call("next_needs_fmgr_hook",
                         IF chained THEN "true" ELSE "false", NULL))]
            ELSE e
      e2 == [e1 EXCEPT !.trace = Append(@,
               Call("sepgsql_avc_trusted_proc",
                    sepgsql_avc_trusted_proc(functionId), NULL))]
      e3 == [e2 EXCEPT !.trace = Append(@,
               Call("sepgsql_avc_check_perms", e.pre_label,
                    IF allowed THEN "true" ELSE "false"))]
  IN IF next_hook["needs_fmgr"] # NULL /\ chained
     THEN [e1 EXCEPT !.ret = "true"]
     ELSE IF sepgsql_avc_trusted_proc(functionId) # NULL
     THEN [e2 EXCEPT !.ret = "true"]
     ELSE IF ~allowed THEN [e3 EXCEPT !.err = "access denied"]
     ELSE [e3 EXCEPT !.ret = "false"]

sepgsql_needs_fmgr_hook(e, functionId, chained, allowed) ==
  LET e1 == IF next_hook["needs_fmgr"] # NULL
            THEN [e EXCEPT !.trace = Append(@,
                    Call("next_needs_fmgr_hook",
                         IF chained THEN "true" ELSE "false", NULL))]
            ELSE e
      e2 == [e1 EXCEPT !.trace = Append(@,
               Call("sepgsql_avc_trusted_proc",
                    sepgsql_avc_trusted_proc(functionId), NULL))]
      e3 == [e2 EXCEPT !.trace = Append(@,
               Call("sepgsql_avc_check_perms", e.pre_label,
                    IF allowed THEN "true" ELSE "false"))]
  IN IF next_hook["needs_fmgr"] # NULL /\ chained
     THEN [e1 EXCEPT !.ret = "true"]
     ELSE IF sepgsql_avc_trusted_proc(functionId) # NULL
     THEN [e2 EXCEPT !.ret = "true"]
     ELSE IF ~allowed THEN [e3 EXCEPT !.ret = "true"]
     ELSE [e3 EXCEPT !.ret = "false"]

NeedsFmgrHook ==
  /\ Hooked("needs_fmgr")
  /\ Idle
  /\ \E functionId \in Functions, chained \in BOOLEAN, allowed \in BOOLEAN :
       last' = sepgsql_needs_fmgr_hook(
                 [Event("needs_fmgr_hook", functionId, 0) EXCEPT
                    !.args = <<IF chained THEN "true" ELSE "false",
                               IF allowed THEN "true" ELSE "false">>],
                 functionId, chained, allowed)
  /\ UNCHANGED <<init_state, USE_ASSERT_CHECKING, hook, next_hook,
                 sepgsql_mode, client_label, sepgsql_permissive,
                 sepgsql_context_info, private, activations, error, session,
                 auth_calls>>

\* ------------------------------------------------------- sepgsql_fmgr_hook
\* a record of the host's control stack.  saved is the handler's local
\* saved_context_info; entry_ctx and entry_label are the observer's copy of
\* the context and the label when the handler was entered; of a dispatch the
\* observer also keeps cmd, the statement's tag or the query's operation,
\* and ctx, the context in effect when the delegate was called
Activation(kind, slot, saved) ==
  [kind |-> kind, slot |-> slot, saved |-> saved,
   entry_ctx |-> sepgsql_context_info, entry_label |-> client_label,
   cmd |-> NULL, ctx |-> EmptyContext]

InUse(s) ==
  \E i \in 1 .. Len(activations) :
    activations[i].kind = "fmgr" /\ activations[i].slot = s

\* the handler's view while it runs: the event so far, the session label,
\* the struct that the local pointer "stack" refers to, whether *private
\* refers to it, and whether an Assert has trapped
Machine(e) ==
  [e |-> e, label |-> e.pre_label, stack |-> e.pre_frame,
   stored |-> e.pre_frame.alloc, trap |-> FALSE]

\* sepgsql_avc_check_perms_label(tcontext, ..., abort): the subject is the
\* client label at the time of the call; a denial raises when abort is set
avc_check_perms_label(m, tcontext, allowed, abort) ==
  [m EXCEPT !.e.trace = Append(@,
              Call("sepgsql_avc_check_perms_label", m.label, tcontext)),
            !.e.err = IF ~allowed /\ abort THEN "access denied" ELSE @]

\* faulty variant: the check does not abort on a denial
fmgr_start_alloc_noabort(m, functionId, allowed) ==
  IF m.stack.alloc THEN m
  ELSE LET new_label == sepgsql_avc_trusted_proc(functionId)
           m1 == [m EXCEPT
                    !.stack = [alloc |-> TRUE, old_label |-> NULL,
                               new_label |-> new_label, next_private |-> 0],
                    !.e.trace = Append(@,
                       Call("sepgsql_avc_trusted_proc", new_label, NULL))]
           m2 == IF new_label # NULL
                 THEN avc_check_perms_label(m1, new_label, allowed, FALSE)
                 ELSE m1
       IN [m2 EXCEPT !.stored = TRUE]

\* faulty variant: the label is switched before the permission is checked
fmgr_start_alloc_switchfirst(m, functionId, allowed) ==
  IF m.stack.alloc THEN m
  ELSE LET new_label == sepgsql_avc_trusted_proc(functionId)
           m1 == [m EXCEPT
                    !.stack = [alloc |-> TRUE, old_label |-> NULL,
                               new_label |-> new_label, next_private |-> 0],
                    !.e.trace = Append(@,
                       Call("sepgsql_avc_trusted_proc", new_label, NULL))]
           m2 == IF new_label # NULL
                 THEN avc_check_perms_label(
                        [m1 EXCEPT !.label = new_label], new_label,
                        allowed, TRUE)
                 ELSE m1
       IN IF m2.e.err # NULL THEN m2
          ELSE [m2 EXCEPT !.stored = TRUE, !.label = m.label]

\* FHET_START, hooks.c:286-311: allocate the struct on the first start of
\* the call site, look the transition label up, check process:transition
fmgr_start_alloc(m, functionId, allowed) ==
  IF m.stack.alloc THEN m
  ELSE LET new_label == sepgsql_avc_trusted_proc(functionId)
           m1 == [m EXCEPT
                    !.stack = [alloc |-> TRUE, old_label |-> NULL,
                               new_label |-> new_label, next_private |-> 0],
                    !.e.trace = Append(@,
                       Call("sepgsql_avc_trusted_proc", new_label, NULL))]
           m2 == IF new_label # NULL
                 THEN avc_check_perms_label(m1, new_label, allowed, TRUE)
                 ELSE m1
       IN IF m2.e.err # NULL THEN m2
          ELSE [m2 EXCEPT !.stored = TRUE]

\* faulty variant: the label in effect is recorded also when there is no
\* label to switch to
fmgr_start_switch_always(m, assert_checking) ==
  IF assert_checking /\ m.stack.old_label # NULL
  THEN [m EXCEPT !.trap = TRUE, !.e.err = "TRAP"]
  ELSE LET r == sepgsql_set_client_label(m.label,
                  IF m.stack.new_label # NULL THEN m.stack.new_label
                  ELSE m.label)
       IN [m EXCEPT !.label = r.label, !.stack.old_label = r.old,
                    !.e.trace = Append(@,
                       Call("sepgsql_set_client_label", r.label, r.old))]

\* FHET_START, hooks.c:312-314: Assert(!stack->old_label), then the switch.
\* The Assert traps only in a build that compiles assertions in
fmgr_start_switch(m, assert_checking) ==
  IF assert_checking /\ m.stack.old_label # NULL
  THEN [m EXCEPT !.trap = TRUE, !.e.err = "TRAP"]
  ELSE IF m.stack.new_label # NULL
  THEN LET r == sepgsql_set_client_label(m.label, m.stack.new_label)
       IN [m EXCEPT !.label = r.label, !.stack.old_label = r.old,
                    !.e.trace = Append(@,
                       Call("sepgsql_set_client_label", r.label, r.old))]
  ELSE m

\* faulty variant: on FHET_END and FHET_ABORT the chained hook is handed a
\* cleared sub-slot
fmgr_chain_cleared(m, event, raises) ==
  IF next_hook["fmgr"] = NULL THEN m
  ELSE [m EXCEPT
          !.e.trace = Append(@, Call("next_fmgr_hook",
                                     <<event, IF event = "FHET_START"
                                              THEN m.stack.next_private
                                              ELSE 0>>,
                                     m.label)),
          !.stack.next_private =
             IF event = "FHET_START" /\ ~raises THEN ChainToken ELSE 0,
          !.e.err = IF raises THEN "chained error" ELSE @]

\* hooks.c:316-317 and 324-325: the chained hook gets the event and the
\* private sub-slot, whose content the trace records as it is handed over;
\* raises: it throws
fmgr_chain(m, event, raises) ==
  IF next_hook["fmgr"] = NULL THEN m
  ELSE [m EXCEPT
          !.e.trace = Append(@, Call("next_fmgr_hook",
                                     <<event, m.stack.next_private>>,
                                     m.label)),
          !.stack.next_private =
             IF event = "FHET_START" /\ ~raises THEN ChainToken ELSE @,
          !.e.err = IF raises THEN "chained error" ELSE @]

sepgsql_fmgr_hook_start(e, functionId, allowed, raises, assert_checking) ==
  LET m1 == fmgr_start_alloc(Machine(e), functionId, allowed)
      m2 == IF m1.e.err # NULL THEN m1
            ELSE fmgr_start_switch(m1, assert_checking)
  IN IF m2.e.err # NULL THEN m2 ELSE fmgr_chain(m2, "FHET_START", raises)

\* faulty variant: the label is put back only on FHET_END
fmgr_restore_endonly(m, event) ==
  IF event = "FHET_ABORT" THEN m
  ELSE LET m1 == IF m.stack.old_label # NULL
                 THEN [m EXCEPT
                         !.label = sepgsql_set_client_label(
                                     m.label, m.stack.old_label).label,
                         !.e.trace = Append(@,
                            Call("sepgsql_set_client_label",
                                 m.stack.old_label, m.label))]
                 ELSE m
       IN [m1 EXCEPT !.stack.old_label = NULL]

\* FHET_END / FHET_ABORT, hooks.c:327-329
fmgr_restore(m, event) ==
  LET m1 == IF m.stack.old_label # NULL
            THEN [m EXCEPT
                    !.label = sepgsql_set_client_label(
                                m.label, m.stack.old_label).label,
                    !.e.trace = Append(@,
                       Call("sepgsql_set_client_label",
                            m.stack.old_label, m.label))]
            ELSE m
  IN [m1 EXCEPT !.stack.old_label = NULL]

\* FHET_END / FHET_ABORT, hooks.c:320-330: the chained hook runs first, and
\* nothing catches what it throws
sepgsql_fmgr_hook_end(e, event, raises) ==
  LET m1 == fmgr_chain(Machine(e), event, raises)
  IN IF m1.e.err # NULL THEN m1 ELSE fmgr_restore(m1, event)

\* the host calls the function through fmgr_security_definer: FHET_START
\* first; the body runs only if the start handler returns
\* others: functions that a call site may invoke besides fn_oid of the site
\* (an FmgrInfo is set up for one function; which one is fixed when the
\* struct of the site is allocated and not looked at again)
FmgrCall(others) ==
  /\ Hooked("fmgr")
  /\ Idle
  /\ Len(activations) < MaxDepth
  /\ \E s \in Slots, allowed \in BOOLEAN, raises \in BOOLEAN :
     \E f \in {fn_oid(s)} \cup others :
       /\ ~InUse(s)
       /\ LET m == sepgsql_fmgr_hook_start(
                     [Event("fmgr_start", NULL, s) EXCEPT
                        !.args = <<IF allowed THEN "true" ELSE "false">>],
                     f, allowed, raises, USE_ASSERT_CHECKING)
          IN /\ last' = m.e
             /\ error' = IF m.trap THEN error ELSE m.e.err
             /\ session' = IF m.trap THEN "trap" ELSE session
             /\ client_label' = m.label
             /\ private' = [private EXCEPT ![s] =
                              IF m.stored THEN m.stack ELSE @]
             /\ activations' =
                  IF m.e.err = NULL
                  THEN <<Activation("fmgr", s, EmptyContext)>> \o activations
                  ELSE activations
  /\ UNCHANGED <<init_state, USE_ASSERT_CHECKING, hook, next_hook,
                 sepgsql_mode, sepgsql_permissive, sepgsql_context_info,
                 auth_calls>>

\* every call site invokes its trusted procedure
FmgrStart == FmgrCall({})

\* a function for which the policy has no transition label
PlainFunction == 3

\* a call site invokes its trusted procedure or the plain function
FmgrStartAny == FmgrCall({PlainFunction})

\* the body returned (FHET_END), or an error unwinds through it (FHET_ABORT,
\* after which the error is thrown again)
FmgrExit(event) ==
  /\ Hooked("fmgr")
  /\ session = "running"
  /\ activations # <<>>
  /\ Head(activations).kind = "fmgr"
  /\ (event = "FHET_END") <=> (error = NULL)
  /\ \E raises \in BOOLEAN :
       LET a == Head(activations)
           m == sepgsql_fmgr_hook_end(
                  [Event(IF event = "FHET_END" THEN "fmgr_end"
                         ELSE "fmgr_abort", NULL, a.slot)
                   EXCEPT !.entry_label = a.entry_label,
                          !.entry_ctx = a.entry_ctx],
                  event, raises)
       IN /\ last' = m.e
          /\ error' = IF m.e.err # NULL THEN m.e.err ELSE error
          /\ client_label' = m.label
          /\ private' = [private EXCEPT ![a.slot] = m.stack]
  /\ activations' = Tail(activations)
  /\ UNCHANGED <<init_state, USE_ASSERT_CHECKING, hook, next_hook,
                 sepgsql_mode, sepgsql_permissive, sepgsql_context_info,
                 session, auth_calls>>

FmgrEnd == FmgrExit("FHET_END")

FmgrAbort == FmgrExit("FHET_ABORT")

\* -------------------------------------------------- sepgsql_utility_command
\* the utility statements the host dispatches here
UtilityTags == {"T_CreateStmt", "T_CreateSeqStmt", "T_CreatedbStmt",
                "T_LoadStmt", "T_AlterTableStmt", "T_ViewStmt",
                "T_CompositeTypeStmt", "T_CreateForeignTableStmt",
                "T_VacuumStmt"}

\* the option lists of a CreatedbStmt: DefElems [defname, arg]
DefElems == {[defname |-> "template", arg |-> "template0"],
             [defname |-> "template", arg |-> "template1"],
             [defname |-> "owner", arg |-> "alice"]}

MaxOptions == 2

OptionLists == UNION {[1 .. n -> DefElems] : n \in 0 .. MaxOptions}

ParseTrees ==
  {[tag |-> t, options |-> <<>>] : t \in UtilityTags \ {"T_CreatedbStmt"}}
  \cup {[tag |-> "T_CreatedbStmt", options |-> o] : o \in OptionLists}

\* faulty variant: the loop lacks its break, the last "template" wins
RECURSIVE createdb_template_nobreak(_, _)
createdb_template_nobreak(options, dtemplate) ==
  IF options = <<>> THEN dtemplate
  ELSE createdb_template_nobreak(Tail(options),
         IF Head(options).defname = "template" THEN Head(options).arg
         ELSE dtemplate)

\* the foreach loop of hooks.c:411-421: the arg of the first DefElem named
\* "template"; without one the field keeps its value
RECURSIVE createdb_template(_, _)
createdb_template(options, dtemplate) ==
  IF options = <<>> THEN dtemplate
  ELSE IF Head(options).defname = "template" THEN Head(options).arg
  ELSE createdb_template(Tail(options), dtemplate)

\* hooks.c:402-422: the context during the dispatch of parsetree
utility_context(ctx, parsetree) ==
  [cmdtype |-> parsetree.tag,
   createdb_dtemplate |->
     IF parsetree.tag = "T_CreatedbStmt"
     THEN createdb_template(parsetree.options, ctx.createdb_dtemplate)
     ELSE ctx.createdb_dtemplate]

\* faulty variant: PG_CATCH throws again without putting the context back
context_on_catch_norestore(saved, cur) == cur

\* PG_CATCH, hooks.c:369-373 and 453-457
context_on_catch(saved, cur) == saved

\* faulty variant: the context is not put back when the delegate returns
context_on_return_keep(saved, cur) == cur

\* after PG_END_TRY, hooks.c:375 and 459
context_on_return(saved, cur) == saved

\* faulty variant: LOAD is never refused
utility_denied_never(mode, parsetree) == FALSE

\* hooks.c:424-435: LOAD is rejected on enforcing mode
utility_denied(mode, parsetree) ==
  parsetree.tag = "T_LoadStmt" /\ sepgsql_getenforce(mode)

\* hooks.c:446-451: the handler the dispatch is delegated to
utility_delegate ==
  IF next_hook["ProcessUtility"] # NULL THEN "next_ProcessUtility_hook"
  ELSE "standard_ProcessUtility"

\* sepgsql_utility_command up to the delegation (hooks.c:392-451): the
\* context saved, the context set, and either the denial, caught and
\* thrown again, or the call of the delegate
sepgsql_utility_command(e, parsetree) ==
  LET saved == e.pre_ctx
      ctx == utility_context(e.pre_ctx, parsetree)
  IN IF utility_denied(e.pre_mode, parsetree)
     THEN [e |-> [e EXCEPT !.err = "LOAD is not permitted"],
           ctx |-> context_on_catch(saved, ctx), saved |-> saved]
     ELSE [e |-> [e EXCEPT !.trace = Append(@,
                     Call(utility_delegate, parsetree.tag,
                          ctx.createdb_dtemplate))],
           ctx |-> ctx, saved |-> saved]

\* the host dispatches one of the statements in trees
UtilityDispatch(trees) ==
  /\ Hooked("ProcessUtility")
  /\ Idle
  /\ Len(activations) < MaxDepth
  /\ \E parsetree \in trees :
       LET r == sepgsql_utility_command(
                  [Event("utility_command", parsetree.tag, 0) EXCEPT
                     !.args = parsetree.options], parsetree)
       IN /\ last' = r.e
          /\ error' = r.e.err
          /\ sepgsql_context_info' = r.ctx
          /\ activations' =
               IF r.e.err = NULL
               THEN <<[Activation("utility", 0, r.saved) EXCEPT
                         !.cmd = parsetree.tag, !.ctx = r.ctx]>>
                    \o activations
               ELSE activations
  /\ UNCHANGED <<init_state, USE_ASSERT_CHECKING, hook, next_hook,
                 sepgsql_mode, client_label, sepgsql_permissive, private,
                 session, auth_calls>>

\* the statements of a session that administers databases and loads
\* libraries
CommandTrees ==
  {t \in ParseTrees : t.tag \in {"T_CreateStmt", "T_CreateSeqStmt",
                                 "T_CreatedbStmt", "T_LoadStmt",
                                 "T_AlterTableStmt"}}

UtilityCommand == UtilityDispatch(CommandTrees)

\* a statement of any kind
AnyCommand == UtilityDispatch(ParseTrees)

\* --------------------------------------------------- sepgsql_executor_start
Operations == {"CMD_SELECT", "CMD_INSERT", "CMD_DELETE", "CMD_UPDATE",
               "CMD_UTILITY"}

\* faulty variant: an operation outside the four clears the context
executor_context_reset(ctx, operation) ==
  CASE operation = "CMD_SELECT" -> [ctx EXCEPT !.cmdtype = "T_SelectStmt"]
    [] operation = "CMD_INSERT" -> [ctx EXCEPT !.cmdtype = "T_InsertStmt"]
    [] operation = "CMD_DELETE" -> [ctx EXCEPT !.cmdtype = "T_DeleteStmt"]
    [] operation = "CMD_UPDATE" -> [ctx EXCEPT !.cmdtype = "T_UpdateStmt"]
    [] OTHER -> EmptyContext

\* hooks.c:351-358
executor_context(ctx, operation) ==
  [ctx EXCEPT !.cmdtype =
     CASE operation = "CMD_SELECT" -> "T_SelectStmt"
       [] operation = "CMD_INSERT" -> "T_InsertStmt"
       [] operation = "CMD_DELETE" -> "T_DeleteStmt"
       [] operation = "CMD_UPDATE" -> "T_UpdateStmt"
       [] OTHER -> @]

\* faulty variant: the chained handler is never given the query
executor_delegate_standard == "standard_ExecutorStart"

\* hooks.c:364-367
executor_delegate ==
  IF next_hook["ExecutorStart"] # NULL THEN "next_ExecutorStart_hook"
  ELSE "standard_ExecutorStart"

\* sepgsql_executor_start up to the delegation (hooks.c:347-367)
sepgsql_executor_start(e, operation) ==
  LET ctx == executor_context(e.pre_ctx, operation)
  IN [e |-> [e EXCEPT !.trace = Append(@,
                Call(executor_delegate, operation, NULL))],
      ctx |-> ctx, saved |-> e.pre_ctx]

ExecutorStart ==
  /\ Hooked("ExecutorStart")
  /\ Idle
  /\ Len(activations) < MaxDepth
  /\ \E operation \in Operations :
       LET r == sepgsql_executor_start(
                  Event("executor_start", operation, 0), operation)
       IN /\ last' = r.e
          /\ sepgsql_context_info' = r.ctx
          /\ activations' =
               <<[Activation("executor", 0, r.saved) EXCEPT
                    !.cmd = operation, !.ctx = r.ctx]>> \o activations
  /\ UNCHANGED <<init_state, USE_ASSERT_CHECKING, hook, next_hook,
                 sepgsql_mode, client_label, sepgsql_permissive, private,
                 error, session, auth_calls>>

\* ---------------------------------------- the exit of a delegated dispatch
IsDispatch(a) == a.kind \in {"utility", "executor"}

\* the delegate returned: the statement after PG_END_TRY
DispatchReturn ==
  /\ Idle
  /\ activations # <<>>
  /\ IsDispatch(Head(activations))
  /\ LET a == Head(activations)
     IN /\ sepgsql_context_info' =
             context_on_return(a.saved, sepgsql_context_info)
        /\ last' = [Event("dispatch_return", a.kind, 0) EXCEPT
                      !.entry_ctx = a.entry_ctx,
                      !.entry_label = a.entry_label]
  /\ activations' = Tail(activations)
  /\ UNCHANGED <<init_state, USE_ASSERT_CHECKING, hook, next_hook,
                 sepgsql_mode, client_label, sepgsql_permissive, private,
                 error, session, auth_calls>>

\* an error unwinds through the delegate: PG_CATCH, then PG_RE_THROW
\* faulty variant: the handler reports an error of its own instead
PG_RE_THROW_replaced(err) == "sepgsql error"

\* PG_RE_THROW() in the PG_CATCH blocks: the error in flight goes on
PG_RE_THROW(err) == err

DispatchCatch ==
  /\ session = "running"
  /\ error # NULL
  /\ activations # <<>>
  /\ IsDispatch(Head(activations))
  /\ LET a == Head(activations)
     IN /\ sepgsql_context_info' =
             context_on_catch(a.saved, sepgsql_context_info)
        /\ last' = [Event("dispatch_catch", a.kind, 0) EXCEPT
                      !.entry_ctx = a.entry_ctx,
                      !.entry_label = a.entry_label,
                      !.err = error]
  /\ activations' = Tail(activations)
  /\ error' = PG_RE_THROW(error)
  /\ UNCHANGED <<init_state, USE_ASSERT_CHECKING, hook, next_hook,
                 sepgsql_mode, client_label, sepgsql_permissive, private,
                 session, auth_calls>>

\* ------------------------------------------------------ errors in the host
\* the delegated handler, or the body of the wrapped function, raises
RaiseInDelegate ==
  /\ Idle
  /\ activations # <<>>
  /\ error' = "delegate error"
  /\ last' = [Event("raise", Head(activations).kind, 0) EXCEPT
                !.err = "delegate error"]
  /\ UNCHANGED <<init_state, USE_ASSERT_CHECKING, hook, next_hook,
                 sepgsql_mode, client_label, sepgsql_permissive,
                 sepgsql_context_info, private, activations, session,
                 auth_calls>>

\* the error reaches a handler of the host: the main loop when nothing is
\* left to unwind, or a subtransaction around the code that threw
HostCatch ==
  /\ session = "running"
  /\ error # NULL
  /\ error' = NULL
  /\ last' = [Event("host_catch", NULL, 0) EXCEPT !.err = error]
  /\ UNCHANGED <<init_state, USE_ASSERT_CHECKING, hook, next_hook,
                 sepgsql_mode, client_label, sepgsql_permissive,
                 sepgsql_context_info, private, activations, session,
                 auth_calls>>

\* the host delivers an event at a point where this layer is not installed:
\* the handler of another module, or the host's default, takes it
HostEventElsewhere ==
  /\ init_state # "unloaded"
  /\ Idle
  /\ \E p \in Points :
       /\ ~Hooked(p)
       /\ last' = Event("elsewhere", p, 0)
  /\ UNCHANGED <<init_state, USE_ASSERT_CHECKING, hook, next_hook,
                 sepgsql_mode, client_label, sepgsql_permissive,
                 sepgsql_context_info, private, activations, error, session,
                 auth_calls>>

\* ------------------------------------------------------ the specifications
\* The handlers fall into groups that write disjoint parts of the state:
\* the trusted-procedure hook writes client_label and private, the two
\* dispatch hooks write sepgsql_context_info, the gates write nothing.
\* Each group is checked with the session running that group's events.

\* a session that calls functions through the fmgr hook
NextProcedures ==
  \/ PG_init
  \/ ClientAuth
  \/ FmgrStart
  \/ FmgrEnd
  \/ FmgrAbort
  \/ RaiseInDelegate
  \/ HostCatch
  \/ HostEventElsewhere

SpecProcedures == Init /\ [][NextProcedures]_vars

\* a session, not yet authenticated, that calls trusted procedures and plain
\* functions through the fmgr hook
NextCallSites ==
  \/ PG_init
  \/ FmgrStartAny
  \/ FmgrEnd
  \/ FmgrAbort
  \/ RaiseInDelegate
  \/ HostCatch
  \/ HostEventElsewhere

\* Assert occurs in sepgsql_fmgr_hook only: where that hook does not run the
\* two builds behave alike and one of them is followed
InitNoAssert == Init /\ ~USE_ASSERT_CHECKING

\* a session that runs utility commands and queries
NextCommands ==
  \/ PG_init
  \/ SetPermissive
  \/ ClientAuth
  \/ UtilityCommand
  \/ ExecutorStart
  \/ DispatchReturn
  \/ DispatchCatch
  \/ RaiseInDelegate
  \/ HostCatch
  \/ HostEventElsewhere

SpecCommands == InitNoAssert /\ [][NextCommands]_vars

\* a session whose statements reach the gates and the lifecycle dispatcher
NextGates ==
  \/ PG_init
  \/ SetPermissive
  \/ ClientAuth
  \/ ObjectAccess
  \/ ExecCheckPerms
  \/ NeedsFmgrHook
  \/ HostCatch
  \/ HostEventElsewhere

SpecGates == InitNoAssert /\ [][NextGates]_vars

\* a session whose statements create objects: the lifecycle events arrive
\* while a utility command or a query is dispatched, and a denial of the
\* per-class routine unwinds through the dispatch
NextLifecycle ==
  \/ PG_init
  \/ AnyCommand
  \/ ExecutorStart
  \/ DispatchReturn
  \/ DispatchCatch
  \/ ObjectAccess
  \/ HostCatch
  \/ HostEventElsewhere

SpecLifecycle == InitNoAssert /\ [][NextLifecycle]_vars

SpecCallSites == InitNoAssert /\ [][NextCallSites]_vars

\* ------------------------------------------------------------- the claims
\* the positions in the last event's trace of the calls of a routine
CallIndexes(name) == {i \in DOMAIN last.trace : last.trace[i][1] = name}

DispatchInProgress ==
  \E i \in 1 .. Len(activations) : IsDispatch(activations[i])

\* C1: every exit of a utility-command or executor-start dispatch (the
\* delegate returned, an error unwound through it, LOAD was refused) leaves
\* sepgsql_context_info as it was when that dispatch was entered, and with no
\* dispatch in progress the context is the one before the outermost entry.
C1_ContextRestoredOnExit ==
  /\ last.op \in {"dispatch_return", "dispatch_catch"}
       => sepgsql_context_info = last.entry_ctx
  /\ (last.op = "utility_command" /\ last.err # NULL)
       => sepgsql_context_info = last.pre_ctx
  /\ ~DispatchInProgress => sepgsql_context_info = EmptyContext

\* an error unwound through a dispatch nested in another one, and that
\* dispatch had changed both fields of the context
C1_Witness ==
  /\ last.op = "dispatch_catch"
  /\ Len(activations) = 1
  /\ last.entry_ctx.cmdtype = "T_CreateStmt"
  /\ last.pre_ctx.cmdtype = "T_CreatedbStmt"
  /\ last.pre_ctx.createdb_dtemplate = "template1"
  /\ sepgsql_context_info.cmdtype = "T_CreateStmt"

\* C2: after the FHET_END or FHET_ABORT that the host pairs with a
\* FHET_START, the client label is the label that was in effect immediately
\* before that FHET_START.
C2_LabelRestoredAfterEndOrAbort ==
  last.op \in {"fmgr_end", "fmgr_abort"} => client_label = last.entry_label

\* C3: FHET_START on a struct whose old_label is already set raises an error
\* and overwrites neither old_label nor the client label.
C3_SecondStartRejected ==
  (last.op = "fmgr_start" /\ last.pre_frame.old_label # NULL) =>
    /\ last.err # NULL
    /\ private[last.slot].old_label = last.pre_frame.old_label
    /\ client_label = last.pre_label

\* C4: when FHET_START looks the transition label up and finds one, the
\* process:transition check is made with the label in effect before the
\* switch as subject and the transition label as target, and before any
\* call that changes the client label.
C4_TransitionCheckedBeforeSwitch ==
  last.op = "fmgr_start" =>
    \A i \in CallIndexes("sepgsql_avc_trusted_proc") :
      last.trace[i][2] # NULL =>
        \E j \in CallIndexes("sepgsql_avc_check_perms_label") :
          /\ last.trace[j] = Call("sepgsql_avc_check_perms_label",
                                  last.pre_label, last.trace[i][2])
          /\ \A k \in CallIndexes("sepgsql_set_client_label") : j < k

\* the client calls a trusted procedure: checked as client_t, then switched
C4_Witness ==
  /\ last.op = "fmgr_start"
  /\ last.pre_label = PeerLabel
  /\ Call("sepgsql_avc_check_perms_label", PeerLabel, "trusted_t")
       \in {last.trace[i] : i \in DOMAIN last.trace}
  /\ CallIndexes("sepgsql_set_client_label") # {}
  /\ client_label = "trusted_t"

\* C5: when the process:transition check of FHET_START is denied, the
\* handler raises before any switch: the client label is unchanged, the
\* chained hook is not called, nothing is stored in the private slot and the
\* function's body does not run.
C5_DenialBeforeSwitch ==
  (/\ last.op = "fmgr_start"
   /\ CallIndexes("sepgsql_avc_check_perms_label") # {}
   /\ last.args = <<"false">>) =>
    /\ last.err = "access denied"
    /\ error = "access denied"
    /\ client_label = last.pre_label
    /\ CallIndexes("sepgsql_set_client_label") = {}
    /\ CallIndexes("next_fmgr_hook") = {}
    /\ ~private[last.slot].alloc
    /\ ~InUse(last.slot)

\* the client is denied the transition while another module is chained
C5_Witness ==
  /\ last.op = "fmgr_start"
  /\ CallIndexes("sepgsql_avc_check_perms_label") # {}
  /\ last.args = <<"false">>
  /\ last.pre_label = PeerLabel
  /\ next_hook["fmgr"] # NULL

\* C6: FHET_END or FHET_ABORT on a struct with old_label set leaves, on every
\* exit of the handler, the client label equal to that old_label and
\* old_label cleared.
C6_RestoreOnEveryExit ==
  (last.op \in {"fmgr_end", "fmgr_abort"}
   /\ last.pre_frame.old_label # NULL) =>
    /\ client_label = last.pre_frame.old_label
    /\ private[last.slot].old_label = NULL

\* C7: when the chained ExecutorCheckPerms hook returns false, the gate
\* returns false and sepgsql_dml_privileges is not called.
C7_ChainedDenialShortCircuits ==
  (/\ last.op = "exec_check_perms"
   /\ \E i \in CallIndexes("next_exec_check_perms_hook") :
        last.trace[i][2] = "false") =>
    /\ last.ret = "false"
    /\ last.err = NULL
    /\ CallIndexes("sepgsql_dml_privileges") = {}

C7_Witness ==
  /\ last.op = "exec_check_perms"
  /\ last.trace = <<Call("next_exec_check_perms_hook", "false", NULL)>>
  /\ last.args[2] = "true"

\* C8: the gate returns true exactly when the chained hook, if there is one,
\* returns true and sepgsql_dml_privileges returns true; with no chained hook
\* the gate's result is that of sepgsql_dml_privileges.
C8_GateIsConjunction ==
  last.op = "exec_check_perms" =>
    LET stacked == next_hook["ExecutorCheckPerms"] # NULL
        chained == last.args[1]
        own == last.args[2]
    IN /\ (last.ret = "true")
            <=> ((stacked => chained = "true") /\ own = "true")
       /\ ~stacked =>
            IF own = "error" THEN last.ret = NULL /\ last.err # NULL
            ELSE last.ret = own /\ last.err = NULL

\* the chained hook allows and this layer's policy denies
C8_Witness ==
  /\ last.op = "exec_check_perms"
  /\ next_hook["ExecutorCheckPerms"] # NULL
  /\ last.args = <<"true", "false">>
  /\ last.ret = "false"

\* C9: LOAD dispatched in enforcing mode raises the denial and nothing is
\* delegated; LOAD dispatched in permissive mode is delegated exactly once,
\* to the chained hook if there is one and else to standard_ProcessUtility,
\* and this layer raises nothing.
C9_LoadGuard ==
  (last.op = "utility_command" /\ last.tag = "T_LoadStmt") =>
    /\ last.pre_mode = "DEFAULT" =>
         /\ last.err = "LOAD is not permitted"
         /\ error = "LOAD is not permitted"
         /\ last.trace = <<>>
         /\ Len(activations) = last.pre_depth
    /\ last.pre_mode = "PERMISSIVE" =>
         /\ last.err = NULL
         /\ error = NULL
         /\ last.trace = <<Call(utility_delegate, "T_LoadStmt",
                                last.pre_ctx.createdb_dtemplate)>>
         /\ Len(activations) = last.pre_depth + 1
         /\ Head(activations).kind = "utility"

\* an enforcing session is refused LOAD
C9_Witness ==
  /\ last.op = "utility_command"
  /\ last.tag = "T_LoadStmt"
  /\ last.pre_mode = "DEFAULT"
  /\ last.err = "LOAD is not permitted"

\* C10: when _PG_init finds the policy subsystem unavailable, the mode is
\* DISABLED, none of the seven hook variables holds this layer's handler,
\* and both stay so in every later state of the session.
C10_DisabledStaysDisabled ==
  init_state = "disabled" =>
    /\ sepgsql_mode = "DISABLED"
    /\ \A p \in Points : hook[p] # "sepgsql"
    /\ \A p \in Points : next_hook[p] = NULL

\* the disabled session authenticates: another handler or the host takes it
C10_Witness ==
  /\ init_state = "disabled"
  /\ last.op = "elsewhere"
  /\ last.tag = "ClientAuthentication"

PeerRetrieved ==
  \E i \in CallIndexes("getpeercon_raw") : last.trace[i][2] # "fail"

C13_UnlabeledPeerIsFatal ==
  /\ (last.op = "client_auth" /\ last.tag = "STATUS_OK" /\ ~PeerRetrieved) =>
       /\ last.err = "FATAL"
       /\ session = "fatal"
       /\ client_label = last.pre_label
       /\ sepgsql_mode = last.pre_mode
  /\ session = "fatal" => (last.op = "client_auth" /\ last.err = "FATAL")
  /\ (session = "running" /\ sepgsql_mode \in {"PERMISSIVE", "DEFAULT"})
       => client_label = PeerLabel

\* the peer of a fresh session has no label
C13_Witness ==
  /\ last.op = "client_auth"
  /\ last.tag = "STATUS_OK"
  /\ ~PeerRetrieved
  /\ last.pre_mode = "INTERNAL"
  /\ session = "fatal"

\* the per-class routines of this layer that the last event called
LayerRoutines ==
  {"sepgsql_database_post_create", "sepgsql_schema_post_create",
   "sepgsql_relation_post_create", "sepgsql_attribute_post_create",
   "sepgsql_proc_post_create"}

RoutineCalls == {i \in DOMAIN last.trace : last.trace[i][1] \in LayerRoutines}

\* C14: for OAT_POST_CREATE on RelationRelationId with subId 0,
\* sepgsql_relation_post_create is called, once and alone, exactly when
\* sepgsql_context_info.cmdtype is T_CreateStmt, T_ViewStmt, T_CreateSeqStmt,
\* T_CompositeTypeStmt, T_CreateForeignTableStmt or T_SelectStmt; for any
\* other cmdtype no routine of this layer is called and nothing is raised.
C14_RelationCreationRouted ==
  (/\ last.op = "object_access"
   /\ last.args = <<"OAT_POST_CREATE">>
   /\ last.tag = "RelationRelationId"
   /\ last.slot = 0) =>
    IF last.pre_ctx.cmdtype \in
         {"T_CreateStmt", "T_ViewStmt", "T_CreateSeqStmt",
          "T_CompositeTypeStmt", "T_CreateForeignTableStmt", "T_SelectStmt"}
    THEN /\ Cardinality(RoutineCalls) = 1
         /\ \A i \in RoutineCalls :
              last.trace[i][1] = "sepgsql_relation_post_create"
    ELSE /\ RoutineCalls = {}
         /\ last.err = NULL
         /\ error = NULL

\* VACUUM FULL makes a new heap while another module is chained
C14_Witness ==
  /\ last.op = "object_access"
  /\ last.args = <<"OAT_POST_CREATE">>
  /\ last.tag = "RelationRelationId"
  /\ last.slot = 0
  /\ last.pre_ctx.cmdtype = "T_VacuumStmt"
  /\ last.trace = <<Call("next_object_access_hook", "OAT_POST_CREATE",
                         "RelationRelationId")>>

\* C15: an object access event of a type other than OAT_POST_CREATE makes
\* the dispatcher raise an error, whatever the class and the subId, and no
\* per-class routine of this layer is called for it.
C15_OtherAccessTypeRaises ==
  (last.op = "object_access" /\ last.args # <<"OAT_POST_CREATE">>) =>
    /\ last.err = "unexpected object access type"
    /\ error = "unexpected object access type"
    /\ RoutineCalls = {}

\* a drop event for a column arrives while CREATE TABLE is dispatched
C15_Witness ==
  /\ last.op = "object_access"
  /\ last.args = <<"OAT_DROP">>
  /\ last.tag = "RelationRelationId"
  /\ last.slot = 1
  /\ last.pre_ctx.cmdtype = "T_CreateStmt"
  /\ error # NULL

\* C16: sepgsql_needs_fmgr_hook returns true exactly when the chained
\* hook, if one is installed, returns true, or the policy has a transition
\* label for the function, or db_procedure:{execute} on the function is
\* denied to the client; otherwise it returns false; it never raises.
C16_NeedsWrapperIsDisjunction ==
  last.op = "needs_fmgr_hook" =>
    LET stacked == next_hook["needs_fmgr"] # NULL
        chained == last.args[1] = "true"
        denied == last.args[2] = "false"
        trusted == sepgsql_avc_trusted_proc(last.tag) # NULL
    IN /\ last.ret \in {"true", "false"}
       /\ last.err = NULL
       /\ error = NULL
       /\ (last.ret = "true") <=> ((stacked /\ chained) \/ trusted \/ denied)

\* a function without a transition label that the client may not execute,
\* and the chained hook has answered no
C16_Witness ==
  /\ last.op = "needs_fmgr_hook"
  /\ next_hook["needs_fmgr"] # NULL
  /\ last.args = <<"false", "false">>
  /\ sepgsql_avc_trusted_proc(last.tag) = NULL
  /\ last.pre_label = PeerLabel
  /\ last.ret = "true"

\* C17: on FHET_END and FHET_ABORT of a frame that switched the label, the
\* chained hook is called before the label is put back: it runs with the
\* client label equal to the frame's new_label, and
\* sepgsql_set_client_label is called only after it has returned.
C17_ChainedExitSeesSwitchedLabel ==
  (/\ last.op \in {"fmgr_end", "fmgr_abort"}
   /\ last.pre_frame.old_label # NULL
   /\ next_hook["fmgr"] # NULL) =>
    \E i \in CallIndexes("next_fmgr_hook") :
      /\ last.trace[i][3] = last.pre_frame.new_label
      /\ \A k \in CallIndexes("sepgsql_set_client_label") : i < k

\* C19: when FHET_START exits with an error, be it the denial of the
\* transition or an error of the chained hook after the switch, the client
\* label is the one in effect immediately before that FHET_START.
C19_StartErrorLeavesNoResidue ==
  (last.op = "fmgr_start" /\ last.err # NULL) => client_label = last.pre_label

\* the extension point whose handler the last event entered, or NULL
EventPoint ==
  CASE last.op = "client_auth"      -> "ClientAuthentication"
    [] last.op = "object_access"    -> "object_access"
    [] last.op = "exec_check_perms" -> "ExecutorCheckPerms"
    [] last.op = "needs_fmgr_hook"  -> "needs_fmgr"
    [] last.op \in {"fmgr_start", "fmgr_end", "fmgr_abort"} -> "fmgr"
    [] last.op = "utility_command"  -> "ProcessUtility"
    [] last.op = "executor_start"   -> "ExecutorStart"
    [] OTHER -> NULL

\* the name under which the handler of a point calls its chained handler
ChainedRoutine(p) ==
  CASE p = "ClientAuthentication" -> "next_client_auth_hook"
    [] p = "object_access"        -> "next_object_access_hook"
    [] p = "ExecutorCheckPerms"   -> "next_exec_check_perms_hook"
    [] p = "needs_fmgr"           -> "next_needs_fmgr_hook"
    [] p = "fmgr"                 -> "next_fmgr_hook"
    [] p = "ProcessUtility"       -> "next_ProcessUtility_hook"
    [] OTHER                      -> "next_ExecutorStart_hook"

ChainedCalls ==
  {i \in DOMAIN last.trace :
     \E p \in Points : last.trace[i][1] = ChainedRoutine(p)}

\* the hook variables and the chained calls of the last event, as C18 has them
HooksChained ==
  /\ init_state = "ok" =>
       /\ \A p \in Points : hook[p] = "sepgsql"
       /\ \/ \A p \in Points : next_hook[p] = NULL
          \/ \A p \in Points : next_hook[p] = OtherModule(p)
  /\ (last.op = "_PG_init" /\ init_state = "ok") => next_hook = last.args[1]
  /\ EventPoint # NULL =>
       /\ init_state = "ok"
       /\ Cardinality(ChainedCalls) <= 1
       /\ \A i \in ChainedCalls : last.trace[i][1] = ChainedRoutine(EventPoint)
       /\ next_hook[EventPoint] = NULL => ChainedCalls = {}

\* C18: after _PG_init succeeded, each of the seven hook variables holds
\* this layer's handler and each next_*_hook holds what the hook variable of
\* its point held before (a handler of another module, or NULL), then and in
\* every later state; an event at a point calls the chained handler of that
\* point and of no other, at most once, and never when none was installed.
C18_HandlersInstalledAndChained ==
  /\ [](HooksChained)
  /\ [][init_state = "ok" => (hook' = hook /\ next_hook' = next_hook)]_vars

\* another module was installed when _PG_init ran, an object is created, and
\* the handler of that module is called for the event
C18_Witness ==
  /\ init_state = "ok"
  /\ \A p \in Points : next_hook[p] = OtherModule(p)
  /\ last.op = "object_access"
  /\ Cardinality(ChainedCalls) = 1

\* the activations, innermost first, of trusted procedures between their
\* FHET_START and their FHET_END or FHET_ABORT that have a transition label
Switched ==
  {i \in 1 .. Len(activations) :
     /\ activations[i].kind = "fmgr"
     /\ private[activations[i].slot].new_label # NULL}

Innermost(S) == CHOOSE i \in S : \A j \in S : i <= j

\* C20: in every state of a running session after a successful
\* authentication, the client label is the new_label of the innermost
\* activation of a trusted procedure in progress, and the peer's label when
\* there is none.
C20_LabelFollowsInnermostActivation ==
  (session = "running" /\ sepgsql_mode \in {"PERMISSIVE", "DEFAULT"}) =>
    client_label =
      IF Switched = {} THEN PeerLabel
      ELSE private[activations[Innermost(Switched)].slot].new_label

\* the cmdtype a dispatch records when it is entered: the tag of a utility
\* statement, the statement kind of a query; NULL for any other operation
RecordedKind(a) ==
  CASE a.kind = "utility"   -> a.cmd
    [] a.cmd = "CMD_SELECT" -> "T_SelectStmt"
    [] a.cmd = "CMD_INSERT" -> "T_InsertStmt"
    [] a.cmd = "CMD_DELETE" -> "T_DeleteStmt"
    [] a.cmd = "CMD_UPDATE" -> "T_UpdateStmt"
    [] OTHER                -> NULL

Recording ==
  {i \in 1 .. Len(activations) :
     IsDispatch(activations[i]) /\ RecordedKind(activations[i]) # NULL}

\* the cmdtype of the innermost dispatch in progress that recorded one
EnclosingKind ==
  IF Recording = {} THEN "T_Invalid"
  ELSE RecordedKind(activations[Innermost(Recording)])

\* C21: while the delegate of a dispatch runs, cmdtype is the one that the
\* innermost dispatch in progress recorded, from the call of the delegate
\* until the dispatch exits, and then again the one of the dispatch around
\* it; a new relation is routed by that cmdtype.
C21_RoutedByInnermostDispatch ==
  /\ sepgsql_context_info.cmdtype = EnclosingKind
  /\ (last.op \in {"utility_command", "executor_start"} /\ last.err = NULL) =>
       /\ Len(last.trace) = 1
       /\ last.trace[1][1] \in {utility_delegate, executor_delegate}
       /\ Len(activations) = last.pre_depth + 1
  /\ (/\ last.op = "object_access"
      /\ last.args = <<"OAT_POST_CREATE">>
      /\ last.tag = "RelationRelationId"
      /\ last.slot = 0) =>
       ((\E i \in RoutineCalls :
           last.trace[i][1] = "sepgsql_relation_post_create")
        <=> EnclosingKind \in
              {"T_CreateStmt", "T_ViewStmt", "T_CreateSeqStmt",
               "T_CompositeTypeStmt", "T_CreateForeignTableStmt",
               "T_SelectStmt"})

\* the CREATE SEQUENCE that a CREATE TABLE dispatched has returned
C21_Witness ==
  /\ last.op = "dispatch_return"
  /\ last.pre_ctx.cmdtype = "T_CreateSeqStmt"
  /\ Len(activations) = 1
  /\ Head(activations).cmd = "T_CreateStmt"
  /\ sepgsql_context_info.cmdtype = "T_CreateStmt"

\* the positions of the options named "template"
TemplateOptions(options) ==
  {i \in DOMAIN options : options[i].defname = "template"}

\* C22: during the dispatch of a CREATE DATABASE that has an option named
\* "template", createdb_dtemplate is the arg of the first such option, and
\* OAT_POST_CREATE on DatabaseRelationId raised in that dispatch calls
\* sepgsql_database_post_create with exactly that name.
C22_FirstTemplateIsPassed ==
  /\ (/\ last.op = "utility_command"
      /\ last.tag = "T_CreatedbStmt"
      /\ last.err = NULL
      /\ TemplateOptions(last.args) # {}) =>
       /\ sepgsql_context_info.createdb_dtemplate =
            last.args[Innermost(TemplateOptions(last.args))].arg
       /\ Head(activations).ctx = sepgsql_context_info
  /\ (/\ last.op = "object_access"
      /\ last.args = <<"OAT_POST_CREATE">>
      /\ last.tag = "DatabaseRelationId"
      /\ activations # <<>>
      /\ Head(activations).cmd = "T_CreatedbStmt") =>
       \E i \in RoutineCalls :
         /\ RoutineCalls = {i}
         /\ last.trace[i] = Call("sepgsql_database_post_create",
                                 Head(activations).ctx.createdb_dtemplate,
                                 NULL)

\* CREATE DATABASE ... TEMPLATE template1 TEMPLATE template0
C22_Witness ==
  /\ last.op = "utility_command"
  /\ last.tag = "T_CreatedbStmt"
  /\ last.args = <<[defname |-> "template", arg |-> "template1"],
                   [defname |-> "template", arg |-> "template0"]>>
  /\ sepgsql_context_info.createdb_dtemplate = "template1"

\* C23: an error that unwinds through sepgsql_utility_command or
\* sepgsql_executor_start leaves the handler as the same error, with
\* sepgsql_context_info back at its value on entry of that dispatch.
C23_DelegateErrorPropagates ==
  last.op = "dispatch_catch" =>
    /\ last.err # NULL
    /\ error = last.err
    /\ sepgsql_context_info = last.entry_ctx

\* an error of the delegate leaves a utility dispatch that had changed
\* the context
C23_Witness ==
  /\ last.op = "dispatch_catch"
  /\ last.tag = "utility"
  /\ error = "delegate error"
  /\ last.pre_ctx # sepgsql_context_info

\* C24: when a client-authentication handler is chained,
\* sepgsql_client_auth calls it once, before anything else and whatever the
\* status, so that it runs under the label and the mode the session had
\* when the handler was entered.
C24_ChainedAuthRunsFirst ==
  (last.op = "client_auth" /\ next_hook["ClientAuthentication"] # NULL) =>
    /\ last.tag \in {"STATUS_OK", "STATUS_ERROR"}
    /\ CallIndexes("next_client_auth_hook") = {1}
    /\ last.trace[1] =
         Call("next_client_auth_hook", last.pre_label, last.pre_mode)

\* a successful authentication that changes the label, with a chained
\* handler
C24_Witness ==
  /\ last.op = "client_auth"
  /\ last.tag = "STATUS_OK"
  /\ next_hook["ClientAuthentication"] # NULL
  /\ PeerRetrieved
  /\ client_label # last.pre_label
  /\ sepgsql_mode # last.pre_mode

\* the classes sepgsql_object_access has a case for
SupportedClasses ==
  {"DatabaseRelationId", "NamespaceRelationId", "RelationRelationId",
   "ProcedureRelationId"}

\* C26: OAT_POST_CREATE on a class other than database, schema, relation
\* and procedure calls no per-class routine, raises nothing, and leaves
\* client_label, sepgsql_mode and sepgsql_context_info as they were.
C26_UnsupportedClassIsNoOp ==
  (/\ last.op = "object_access"
   /\ last.args = <<"OAT_POST_CREATE">>
   /\ last.tag \notin SupportedClasses) =>
    /\ RoutineCalls = {}
    /\ last.err = NULL
    /\ error = NULL
    /\ client_label = last.pre_label
    /\ sepgsql_mode = last.pre_mode
    /\ sepgsql_context_info = last.pre_ctx

\* a new type (subId 1 as for a column) while CREATE TABLE is dispatched
C26_Witness ==
  /\ last.op = "object_access"
  /\ last.args = <<"OAT_POST_CREATE">>
  /\ last.tag = "TypeRelationId"
  /\ last.slot = 1
  /\ sepgsql_context_info.cmdtype = "T_CreateStmt"
  /\ last.err = NULL

\* the routine of a class whose case does not look at cmdtype or subId
ClassRoutine(classId) ==
  CASE classId = "DatabaseRelationId" -> "sepgsql_database_post_create"
    [] classId = "NamespaceRelationId" -> "sepgsql_schema_post_create"
    [] classId = "ProcedureRelationId" -> "sepgsql_proc_post_create"
    [] OTHER -> NULL

\* C30: OAT_POST_CREATE on RelationRelationId with subId # 0 calls
\* sepgsql_attribute_post_create, once and alone, whatever cmdtype is; on
\* DatabaseRelationId, NamespaceRelationId and ProcedureRelationId the
\* routine of the class is called whatever cmdtype and subId are.
C30_ColumnsAndOtherClassesAlwaysRouted ==
  (last.op = "object_access" /\ last.args = <<"OAT_POST_CREATE">>) =>
    /\ (last.tag = "RelationRelationId" /\ last.slot # 0) =>
         \E i \in RoutineCalls :
           /\ RoutineCalls = {i}
           /\ last.trace[i][1] = "sepgsql_attribute_post_create"
    /\ ClassRoutine(last.tag) # NULL =>
         \E i \in RoutineCalls :
           /\ RoutineCalls = {i}
           /\ last.trace[i][1] = ClassRoutine(last.tag)

\* ALTER TABLE ... ADD COLUMN
C30_Witness ==
  /\ last.op = "object_access"
  /\ last.args = <<"OAT_POST_CREATE">>
  /\ last.tag = "RelationRelationId"
  /\ last.slot = 1
  /\ last.pre_ctx.cmdtype = "T_AlterTableStmt"
  /\ CallIndexes("sepgsql_attribute_post_create") # {}

\* the switch at position k of the last event's trace comes after a
\* look-up that found its label and a check from the label of entry to it
SwapChecked(k) ==
  \E i \in CallIndexes("sepgsql_avc_trusted_proc"),
     j \in CallIndexes("sepgsql_avc_check_perms_label") :
    /\ i < j
    /\ j < k
    /\ last.trace[i][2] # NULL
    /\ last.trace[j] = Call("sepgsql_avc_check_perms_label",
                            last.pre_label, last.trace[i][2])
    /\ last.trace[k][2] = last.trace[i][2]

\* C27: every switch of the client label made by FHET_START comes, in that
\* same FHET_START, after sepgsql_avc_trusted_proc and after the
\* process:transition check from the label then in effect to the transition
\* label, also when *private already refers to a struct of an earlier call.
C27_EverySwapLookedUpAndChecked ==
  last.op = "fmgr_start" =>
    \A k \in CallIndexes("sepgsql_set_client_label") : SwapChecked(k)

\* the same for the first FHET_START of a call site only
FirstStartLookedUpAndChecked ==
  (last.op = "fmgr_start" /\ ~last.pre_frame.alloc) =>
    \A k \in CallIndexes("sepgsql_set_client_label") : SwapChecked(k)

\* C28: the old_label of a struct is set exactly while a call of a function
\* with a transition label is between its FHET_START and its FHET_END or
\* FHET_ABORT on that struct, and it is NULL after every FHET_END and
\* FHET_ABORT, also for a struct whose old_label was never set.
C28_OldLabelSetExactlyDuringActivation ==
  /\ \A s \in Slots :
       private[s].old_label # NULL <=>
         (InUse(s) /\ private[s].new_label # NULL)
  /\ last.op \in {"fmgr_end", "fmgr_abort"} =>
       private[last.slot].old_label = NULL

\* the last event entered the dispatch of a CREATE DATABASE that names a
\* template
EnteredCreatedbWithTemplate ==
  /\ last.op = "utility_command"
  /\ last.tag = "T_CreatedbStmt"
  /\ TemplateOptions(last.args) # {}

\* C29: createdb_dtemplate is NULL outside every dispatch, and on entry of
\* every dispatch other than that of a CREATE DATABASE naming a template:
\* a CREATE DATABASE without the option, any other statement, any query,
\* nested in another dispatch or not.
C29_TemplateNullElsewhere ==
  /\ activations = <<>> => sepgsql_context_info.createdb_dtemplate = NULL
  /\ (/\ last.op \in {"utility_command", "executor_start"}
      /\ last.err = NULL
      /\ ~EnteredCreatedbWithTemplate) =>
       sepgsql_context_info.createdb_dtemplate = NULL

\* the same for the dispatches that are not nested in a dispatch of a
\* CREATE DATABASE naming a template
TemplateNullAtTopLevel ==
  /\ activations = <<>> => sepgsql_context_info.createdb_dtemplate = NULL
  /\ (/\ last.op \in {"utility_command", "executor_start"}
      /\ last.err = NULL
      /\ last.pre_ctx.createdb_dtemplate = NULL
      /\ ~EnteredCreatedbWithTemplate) =>
       sepgsql_context_info.createdb_dtemplate = NULL

\* C31: sepgsql_client_auth called with a status other than STATUS_OK
\* returns without calling getpeercon_raw and leaves client_label and
\* sepgsql_mode as they were; on the first call of the session these are the
\* server's label and INTERNAL.
C31_FailedAuthChangesNothing ==
  (last.op = "client_auth" /\ last.tag # "STATUS_OK") =>
    /\ CallIndexes("getpeercon_raw") = {}
    /\ last.err = NULL
    /\ session = "running"
    /\ client_label = last.pre_label
    /\ sepgsql_mode = last.pre_mode
    /\ auth_calls = 1 =>
         (client_label = ServerLabel /\ sepgsql_mode = "INTERNAL")

\* the first authentication of the session fails
C31_Witness ==
  /\ last.op = "client_auth"
  /\ last.tag = "STATUS_ERROR"
  /\ auth_calls = 1
  /\ client_label = ServerLabel
  /\ sepgsql_mode = "INTERNAL"

\* C32: _PG_init installs all seven handlers or none. When it raises (under
\* a running postmaster, or getcon_raw fails) or SELinux is disabled, every
\* hook variable keeps the value it had and no next_*_hook is set; when it
\* completes, all seven hook variables are this module's handlers. No state
\* has some of them installed and others not.
C32_InitInstallsAllOrNothing ==
  /\ init_state = "ok" => \A p \in Points : Hooked(p)
  /\ init_state # "ok" =>
       /\ \A p \in Points : ~Hooked(p)
       /\ next_hook = [p \in Points |-> NULL]
       /\ hook \in StackedConfigs
  /\ (last.op = "_PG_init" /\ init_state # "ok") => hook = last.args[1]
  /\ (\E p \in Points : Hooked(p)) => (\A p \in Points : Hooked(p))

\* getcon_raw fails, or the module is loaded under the postmaster, in a host
\* where another module has hooks
C32_Witness ==
  /\ last.op = "_PG_init"
  /\ last.err = "ERROR"
  /\ init_state = "error"
  /\ hook = [p \in Points |-> OtherModule(p)]

\* C33: from a _PG_init that completed with SELinux enabled until the first
\* call of sepgsql_client_auth, client_label is the label of the server
\* process, sepgsql_mode is INTERNAL and sepgsql_context_info is zero
\* (cmdtype T_Invalid, createdb_dtemplate NULL).
C33_InitialSessionState ==
  (init_state = "ok" /\ auth_calls = 0) =>
    /\ client_label = ServerLabel
    /\ sepgsql_mode = "INTERNAL"
    /\ sepgsql_context_info = EmptyContext
    /\ sepgsql_context_info.cmdtype = "T_Invalid"
    /\ sepgsql_context_info.createdb_dtemplate = NULL

\* an event of the host handled before the session is authenticated
C33_Witness ==
  /\ init_state = "ok"
  /\ auth_calls = 0
  /\ last.op = "object_access"
  /\ client_label = ServerLabel

\* the two handlers a dispatch at point p can be delegated to
Delegates(p) ==
  IF p = "ProcessUtility"
  THEN {"next_ProcessUtility_hook", "standard_ProcessUtility"}
  ELSE {"next_ExecutorStart_hook", "standard_ExecutorStart"}

DelegateCalls(p) ==
  {i \in DOMAIN last.trace : last.trace[i][1] \in Delegates(p)}

\* C34: sepgsql_utility_command, unless it refuses the statement, and
\* sepgsql_executor_start call exactly one handler exactly once, with the
\* statement or query they were given: the chained hook when one is set,
\* else the standard implementation.
C34_DelegatedExactlyOnce ==
  (last.op \in {"utility_command", "executor_start"} /\ last.err = NULL) =>
    LET p == EventPoint
    IN \E i \in DelegateCalls(p) :
         /\ DelegateCalls(p) = {i}
         /\ last.trace[i][1] = IF next_hook[p] # NULL THEN ChainedRoutine(p)
                               ELSE IF p = "ProcessUtility"
                                    THEN "standard_ProcessUtility"
                                    ELSE "standard_ExecutorStart"
         /\ last.trace[i][2] = last.tag

\* a query starts in a host where another module hooks ExecutorStart
C34_Witness ==
  /\ last.op = "executor_start"
  /\ next_hook["ExecutorStart"] # NULL
  /\ last.trace = <<Call("next_ExecutorStart_hook", last.tag, NULL)>>

\* the statement kind of a query operation, NULL when it has none
OperationKind(operation) ==
  CASE operation = "CMD_SELECT" -> "T_SelectStmt"
    [] operation = "CMD_INSERT" -> "T_InsertStmt"
    [] operation = "CMD_DELETE" -> "T_DeleteStmt"
    [] operation = "CMD_UPDATE" -> "T_UpdateStmt"
    [] OTHER -> NULL

\* C35: on entry of sepgsql_executor_start cmdtype becomes T_SelectStmt,
\* T_InsertStmt, T_DeleteStmt or T_UpdateStmt for CMD_SELECT, CMD_INSERT,
\* CMD_DELETE or CMD_UPDATE and keeps the value of the enclosing context for
\* any other operation; createdb_dtemplate keeps its value in every case.
C35_ExecutorSetsKindOnly ==
  last.op = "executor_start" =>
    /\ sepgsql_context_info.cmdtype =
         IF OperationKind(last.tag) # NULL THEN OperationKind(last.tag)
         ELSE last.pre_ctx.cmdtype
    /\ sepgsql_context_info.createdb_dtemplate =
         last.pre_ctx.createdb_dtemplate

\* a query of another operation starts while CREATE DATABASE ... TEMPLATE
\* is dispatched
C35_Witness ==
  /\ last.op = "executor_start"
  /\ last.tag = "CMD_UTILITY"
  /\ last.pre_ctx.cmdtype = "T_CreatedbStmt"
  /\ last.pre_ctx.createdb_dtemplate = "template0"
  /\ sepgsql_context_info = last.pre_ctx

\* the last event is FHET_START, FHET_END or FHET_ABORT of a function for
\* which the policy has no transition label
PlainEvent ==
  /\ last.op \in {"fmgr_start", "fmgr_end", "fmgr_abort"}
  /\ private[last.slot].alloc
  /\ private[last.slot].new_label = NULL

\* C36: for a function without transition label FHET_START, FHET_END and
\* FHET_ABORT leave the client label as it is and never set old_label; the
\* struct is allocated by the first FHET_START, with the look-up that finds
\* no label, and apart from that the handler only calls the chained hook.
C36_PlainFunctionLeavesLabel ==
  PlainEvent =>
    /\ client_label = last.pre_label
    /\ sepgsql_mode = last.pre_mode
    /\ sepgsql_context_info = last.pre_ctx
    /\ last.pre_frame.old_label = NULL
    /\ private[last.slot].old_label = NULL
    /\ last.pre_frame.alloc => last.pre_frame.new_label = NULL
    /\ ~last.pre_frame.alloc => last.op = "fmgr_start"
    /\ \A i \in DOMAIN last.trace :
         last.trace[i][1] \in {"sepgsql_avc_trusted_proc", "next_fmgr_hook"}
    /\ CallIndexes("sepgsql_avc_trusted_proc") # {} <=> ~last.pre_frame.alloc
    /\ CallIndexes("next_fmgr_hook") # {} <=> next_hook["fmgr"] # NULL

\* a plain function called from within a trusted procedure is aborted
C36_Witness ==
  /\ PlainEvent
  /\ last.op = "fmgr_abort"
  /\ next_hook["fmgr"] # NULL
  /\ last.pre_label = "trusted_t"
  /\ client_label = "trusted_t"

\* C37: next_fmgr_hook gets &stack->next_private, a field of the struct
\* that the first FHET_START sets to 0 and that the handler does not write
\* again: what the chained hook stored in it at FHET_START is what it is
\* handed at the FHET_END or FHET_ABORT of that call, and the chained
\* FHET_START runs after the switch of the client label.
C37_ChainedSubSlotKept ==
  (last.op \in {"fmgr_start", "fmgr_end", "fmgr_abort"}
   /\ next_hook["fmgr"] # NULL) =>
    \A i \in CallIndexes("next_fmgr_hook") :
      /\ last.trace[i][2][2] = last.pre_frame.next_private
      /\ ~last.pre_frame.alloc => last.trace[i][2][2] = 0
      /\ last.op = "fmgr_start" =>
           /\ \A k \in CallIndexes("sepgsql_set_client_label") : k < i
           /\ last.trace[i][3] = client_label
           /\ last.err = NULL => private[last.slot].next_private = ChainToken
      /\ last.op # "fmgr_start" =>
           /\ last.pre_frame.next_private = ChainToken
           /\ private[last.slot].next_private = ChainToken

\* the chained hook is handed at FHET_ABORT what it stored at FHET_START of
\* a trusted procedure
C37_Witness ==
  /\ last.op = "fmgr_abort"
  /\ CallIndexes("next_fmgr_hook") = {1}
  /\ last.trace[1][2] = <<"FHET_ABORT", ChainToken>>
  /\ last.pre_frame.old_label # NULL

\* C38: when an object-access hook is chained, sepgsql_object_access calls
\* it exactly once, with the event it was given and before any routine of
\* its own: for every class, the unsupported ones included, and for every
\* access type, those it raises "unexpected object access type" for
\* included.
C38_ChainedObjectAccessFirst ==
  (last.op = "object_access" /\ next_hook["object_access"] # NULL) =>
    /\ CallIndexes("next_object_access_hook") = {1}
    /\ last.trace[1] =
         Call("next_object_access_hook", last.args[1], last.tag)
    /\ \A k \in RoutineCalls : 1 < k

\* an access type the handler does not know: the chained hook has run when
\* the error is raised
C38_Witness ==
  /\ last.op = "object_access"
  /\ last.args = <<"OAT_DROP">>
  /\ last.err = "unexpected object access type"
  /\ last.trace = <<Call("next_object_access_hook", "OAT_DROP", last.tag)>>

\* the handlers that only ask and answer
GateOps == {"object_access", "exec_check_perms", "needs_fmgr_hook"}

\* C39: a step of sepgsql_object_access, sepgsql_exec_check_perms or
\* sepgsql_needs_fmgr_hook leaves client_label, sepgsql_mode,
\* sepgsql_context_info, the structs of the call sites and the control stack
\* as they were; sepgsql_needs_fmgr_hook raises nothing, and when the check
\* of db_procedure:execute is denied it answers true.
C39_GatesChangeNoSessionState ==
  [][(last' # last /\ last'.op \in GateOps) =>
       /\ client_label' = client_label
       /\ sepgsql_mode' = sepgsql_mode
       /\ sepgsql_context_info' = sepgsql_context_info
       /\ private' = private
       /\ activations' = activations
       /\ last'.pre_label = client_label
       /\ last'.op = "needs_fmgr_hook" =>
            /\ last'.err = NULL
            /\ error' = error
            /\ (\E i \in DOMAIN last'.trace :
                  last'.trace[i] = Call("sepgsql_avc_check_perms",
                                        client_label, "false"))
                 => last'.ret = "true"]_vars

\* the authenticated client is denied db_procedure:execute on a function
\* that is no trusted procedure
C39_Witness ==
  /\ last.op = "needs_fmgr_hook"
  /\ client_label = PeerLabel
  /\ Call("sepgsql_avc_check_perms", PeerLabel, "false")
       \in {last.trace[i] : i \in DOMAIN last.trace}
  /\ last.ret = "true"
  /\ last.err = NULL

Next ==
  \/ NextProcedures
  \/ NextCallSites
  \/ NextCommands
  \/ NextGates
  \/ NextLifecycle

Spec == Init /\ [][Next]_vars
====
